---- MODULE Spec2Model ----
(***************************************************************************)
(* The wallet investigation service (cryptoWalletInvestigationService.ts): *)
(* the cached ledger lookups getWalletInfo / getWalletTransactions /       *)
(* getTransactionDetails, the breadth-first graph builder buildWalletGraph *)
(* and the orchestrator investigateWallet.                                 *)
(*                                                                         *)
(* The specifications of the module:                                       *)
(*   Spec           one call of buildWalletGraph or of investigateWallet;   *)
(*                  the lookups it awaits are summarised by their result,   *)
(*                  computed by the same control flow as the stepwise       *)
(*                  lookups below;                                          *)
(*   SpecCache      concurrent lookups, step by step at their await points, *)
(*                  over the response cache and a clock;                    *)
(*   SpecFanOut     buildWalletGraph on transactions with many outputs;     *)
(*   SpecFrequency  analyzeFrequency on lists of timestamps;                *)
(*   SpecLayout     the animation loop of CryptoWalletGraph;                *)
(*   SpecUI         the search box of CryptoInvestigator;                   *)
(*   SpecRisk       the documented risk scoring.                            *)
(***************************************************************************)
EXTENDS Integers, Sequences, FiniteSets, TLC

\* ------------------------------------------------------------------ bounds
NumAddr == 3
MaxTx == 2
MaxValue == 2
MaxDepth == 2
MaxNodesArg == 3

MaxCalls == 3
MaxTime == 12
TickStep == 6

NumFanAddr == 12
MaxFanDepth == 1
MaxFanNodes == 2
MaxGraphNodes == 2
MaxSearches == 2
MaxSteps == 302
MaxStamps == 3

\* ------------------------------------------------------- program constants
CACHE_TTL == 10
FanOut == 10
GraphTxLimit == 20
InvestigateTxLimit == 50
InvestigateMaxNodes == 30
MaxFrames == 300
DayHours == 24

\* Addresses are 1..NumAddr; Unknown is the placeholder the providers'
\* normalisation writes for an input or output without an address.
Unknown == 0
Addr == 1..NumAddr
AddrU == Addr \cup {Unknown}
Networks == {"bitcoin", "ethereum", "tron"}

VARIABLES
  entry,         \* which exported function is called: "graph" | "investigate", or the
                 \* lookup "info" | "txs" | "details" that SpecCache runs concurrently
  ledger,        \* the ledger the providers serve: its transactions, newest first
  network,       \* the network argument
  rootAddress,   \* the address argument
  depth,         \* buildWalletGraph's depth
  maxNodes,      \* buildWalletGraph's maxNodes
  gpc,           \* buildWalletGraph: "idle" | "root" | "loop" | "returned" | "threw"
  rootFetched,   \* whether the root lookup of the build returned a wallet
  lookupFailed,  \* whether a lookup of the build came back without the provider's data
  lookups,       \* the getWalletInfo calls of the build, in order: [address, result]
  nodes,         \* sequence of [address, level]; level is the level pushed to the queue with it
  edges,         \* sequence of [source, target, transactions, totalVolume, firstTx, lastTx]
  visited,       \* set of addresses
  queue,         \* sequence of [address, level]
  fetchTransactions, buildGraph,   \* investigateWallet's options (graphDepth is depth)
  ipc,           \* investigateWallet: "idle" | "wallet" | "txs" | "graph" | "building" | "returned" | "null"
  iwallet,       \* the result of investigateWallet's own wallet lookup, "pending" before it
  txStarted,     \* whether investigateWallet called getWalletTransactions
  result,        \* investigateWallet's result record; status "pending" | "null" | "ok"
  cache,         \* the response cache: key -> [present, value, expires, writer]
  now,           \* the clock, in the unit of the TTL
  calls,         \* the lookups in flight or finished, by call number
  written,       \* every <<key, value>> ever written to the cache
  layout,        \* CryptoWalletGraph: the node state and its animation loop
  ui,            \* CryptoInvestigator: the search state and the searches in flight
  risk,          \* a wallet's risk factors with the score and level computed from them
  freq           \* a transaction list's timestamps and the frequency analysis of it

args == <<entry, ledger, network, rootAddress, depth, maxNodes, fetchTransactions, buildGraph>>
gvars == <<gpc, rootFetched, lookupFailed, lookups, nodes, edges, visited, queue>>
ivars == <<ipc, iwallet, txStarted, result>>
cvars == <<cache, now, calls, written>>
xvars == <<layout, ui, risk, freq>>
vars == <<args, gvars, ivars, cvars, xvars>>

\* ------------------------------------------------------------ environment
\* What one provider attempt can answer.
ProviderOutcome == {"ok", "notfound", "error"}
\* What the awaited cache read / write can do.
CacheReadOutcome == {"hit", "miss", "throw"}
CacheWriteOutcome == {"ok", "throw"}
\* The environment of one lookup: the cache read, the provider attempts in
\* order, the cache write.
LookupEnv == [read : CacheReadOutcome, p1 : ProviderOutcome, p2 : ProviderOutcome,
              write : CacheWriteOutcome]

\* A normalised transaction as the graph builder reads it.  A provider list is
\* newest first; hash numbers the transactions chronologically.
TxShape == [inputs : {<<a>> : a \in AddrU}, outputs : {<<a>> : a \in AddrU}, value : 1..MaxValue]
RECURSIVE SeqsUpTo(_, _)
SeqsUpTo(S, n) ==
  IF n = 0 THEN {<<>>}
  ELSE LET shorter == SeqsUpTo(S, n - 1)
       IN shorter \cup {Append(s, x) : s \in {t \in shorter : Len(t) = n - 1}, x \in S}
Stamp(shapes) ==
  [i \in 1..Len(shapes) |->
     [hash |-> Len(shapes) - i + 1, inputs |-> shapes[i].inputs,
      outputs |-> shapes[i].outputs, value |-> shapes[i].value]]
Ledgers == {Stamp(s) : s \in SeqsUpTo(TxShape, MaxTx)}

InTx(tx, a) ==
  \/ \E i \in 1..Len(tx.inputs) : tx.inputs[i] = a
  \/ \E i \in 1..Len(tx.outputs) : tx.outputs[i] = a
FirstN(s, n) == SubSeq(s, 1, IF Len(s) < n THEN Len(s) ELSE n)
\* What a provider that answers lists for (address, limit): the newest `limit`
\* transactions of the ledger that name the address.
ProviderTxs(led, a, limit) == FirstN(SelectSeq(led, LAMBDA tx : InTx(tx, a)), limit)

\* ------------------------------------------------------------ getWalletInfo
\* getBitcoinWalletInfo / getEthereumWalletInfo: the providers tried, in order.
\* "wallet" when one answered with data, "throw" when none did, "none" when the
\* network has no provider branch (walletInfo stays null).
FetchWalletInfo(net, p1, p2) ==
  IF net = "bitcoin"
  THEN IF p1 = "ok" THEN "wallet" ELSE IF p2 = "ok" THEN "wallet" ELSE "throw"
  ELSE IF net = "ethereum"
  THEN IF p1 = "ok" THEN "wallet" ELSE "throw"
  ELSE "none"

\* getWalletInfo: "wallet" | "null" | "throw" (the promise rejects: the cache
\* read is awaited before the try block; the cache write inside it).
GetWalletInfoResult(net, env) ==
  IF env.read = "throw" THEN "throw"
  ELSE IF env.read = "hit" THEN "wallet"
  ELSE IF FetchWalletInfo(net, env.p1, env.p2) = "wallet"
       THEN IF env.write = "throw" THEN "null" ELSE "wallet"
       ELSE "null"

\* The environments a lookup can meet: an entry is in the cache only for a
\* network whose lookup can succeed.
WalletEnvs(net) ==
  {env \in LookupEnv : env.read = "hit" => FetchWalletInfo(net, "ok", "ok") = "wallet"}
WalletResults(net) == {GetWalletInfoResult(net, env) : env \in WalletEnvs(net)}

\* ---------------------------------------------------- getWalletTransactions
\* getBitcoinWalletTransactions / getEthereumWalletTransactions: the provider's
\* list, [] when the attempt fails, [] for ethereum; no branch for other networks.
FetchWalletTransactions(net, led, a, limit, p1) ==
  IF net = "bitcoin" /\ p1 = "ok" THEN ProviderTxs(led, a, limit) ELSE <<>>

\* `if (transactions.length > 0)` before the cache write.
CachesTransactions(txs) == Len(txs) > 0

\* getWalletTransactions: [threw, list]; a cached list is an earlier answer of
\* the provider.
GetWalletTransactionsResult(net, led, a, limit, env) ==
  IF env.read = "throw" THEN [threw |-> TRUE, list |-> <<>>]
  ELSE IF env.read = "hit" THEN [threw |-> FALSE, list |-> ProviderTxs(led, a, limit)]
  ELSE LET txs == FetchWalletTransactions(net, led, a, limit, env.p1)
       IN IF CachesTransactions(txs) /\ env.write = "throw"
          THEN [threw |-> FALSE, list |-> <<>>]
          ELSE [threw |-> FALSE, list |-> txs]

\* Only a non-empty bitcoin list is ever in the cache.
TxEnvs(net, led, a, limit) ==
  {env \in LookupEnv :
     env.read = "hit" => CachesTransactions(FetchWalletTransactions(net, led, a, limit, "ok"))}
TxResults(net, led, a, limit) ==
  {GetWalletTransactionsResult(net, led, a, limit, env) : env \in TxEnvs(net, led, a, limit)}

\* -------------------------------------------------------- buildWalletGraph
\* The addresses one transaction connects to `address`: inputs first, then
\* outputs, without `address` and the placeholder, in first-insertion order.
RECURSIVE AddAll(_, _, _)
AddAll(acc, addrs, address) ==
  IF addrs = <<>> THEN acc
  ELSE LET a == Head(addrs)
           keep == a # address /\ a # Unknown /\ \A i \in 1..Len(acc) : acc[i] # a
       IN AddAll(IF keep THEN Append(acc, a) ELSE acc, Tail(addrs), address)
ConnectedAddresses(tx, address) == AddAll(AddAll(<<>>, tx.inputs, address), tx.outputs, address)

\* connections.set(connAddr, existing) for every connected address of one tx.
RECURSIVE Track(_, _, _)
Track(conns, addrs, tx) ==
  IF addrs = <<>> THEN conns
  ELSE LET a == Head(addrs)
           at == {i \in 1..Len(conns) : conns[i].addr = a}
           next ==
             IF at = {}
             THEN Append(conns, [addr |-> a, count |-> 1, volume |-> tx.value,
                                 txHashes |-> <<tx.hash>>])
             ELSE LET i == CHOOSE i \in at : TRUE
                  IN [conns EXCEPT ![i] = [addr |-> a, count |-> @.count + 1,
                                           volume |-> @.volume + tx.value,
                                           txHashes |-> Append(@.txHashes, tx.hash)]]
       IN Track(next, Tail(addrs), tx)

\* The connections map after the scan of the transaction list, in insertion order.
RECURSIVE Connections(_, _, _)
Connections(conns, txs, address) ==
  IF txs = <<>> THEN conns
  ELSE Connections(Track(conns, ConnectedAddresses(Head(txs), address), Head(txs)),
                   Tail(txs), address)

\* A variant of the slice that keeps every connection.
SliceAll(conns) == conns

\* Array.from(connections.entries()).slice(0, 10)
Slice(conns) == SubSeq(conns, 1, IF Len(conns) < FanOut THEN Len(conns) ELSE FanOut)

\* A variant that looks up and adds every found connection, visited or not.
AddsNodeIgnoringVisited(connAddr, vis, found) == connAddr \in found

\* A variant that adds every connection it looks up, found or not.
AddsNodeWithoutWallet(connAddr, vis, found) == connAddr \notin vis

\* Whether the loop over the connections looks `connAddr` up and adds it as a node.
AddsNode(connAddr, vis, found) == connAddr \notin vis /\ connAddr \in found

\* A variant of the edge that counts one transaction whatever the scan counted.
MakeEdgeCountingOne(address, c) ==
  [source |-> address, target |-> c.addr, transactions |-> 1,
   totalVolume |-> c.volume, firstTx |-> c.txHashes[1],
   lastTx |-> c.txHashes[Len(c.txHashes)]]

\* edges.push({...}) for one entry of the connections map.
MakeEdge(address, c) ==
  [source |-> address, target |-> c.addr, transactions |-> c.count,
   totalVolume |-> c.volume, firstTx |-> c.txHashes[1],
   lastTx |-> c.txHashes[Len(c.txHashes)]]

\* `if (!visited.has(connAddr))`: the loop calls getWalletInfo(connAddr).
LooksUp(connAddr, vis) == connAddr \notin vis

\* The loop over the sliced connections of one expanded node (lines 857-890):
\* st = [nodes, edges, visited, queue, lookups]; found = the addresses whose
\* lookup returns a wallet if the loop makes it.  The edge is pushed whatever
\* the lookup returned.
RECURSIVE AddConnections(_, _, _, _, _)
AddConnections(st, conns, address, level, found) ==
  IF conns = <<>> THEN st
  ELSE LET c == Head(conns)
           st0 == IF LooksUp(c.addr, st.visited)
                  THEN [st EXCEPT !.lookups =
                          Append(@, [address |-> c.addr,
                                     result |-> IF c.addr \in found THEN "wallet" ELSE "null"])]
                  ELSE st
           st1 == IF AddsNode(c.addr, st.visited, found)
                  THEN [st0 EXCEPT !.nodes = Append(@, [address |-> c.addr, level |-> level + 1]),
                                   !.visited = @ \cup {c.addr},
                                   !.queue = Append(@, [address |-> c.addr, level |-> level + 1])]
                  ELSE st0
           st2 == [st1 EXCEPT !.edges = Append(@, MakeEdge(address, c))]
       IN AddConnections(st2, Tail(conns), address, level, found)

\* The addresses of the connections the loop goes over.
ConnAddrs(conns) == {conns[i].addr : i \in 1..Len(conns)}

\* A variant of the while condition that tests the queue only.
LoopGuardQueueOnly(q, ns, limit) == Len(q) > 0

\* A variant of the while condition that lets a full graph in.
LoopGuardInclusive(q, ns, limit) == Len(q) > 0 /\ Len(ns) <= limit

\* The while condition of the traversal.
LoopGuard(q, ns, limit) == Len(q) > 0 /\ Len(ns) < limit

\* A variant of the depth test that is off by one.
TooDeepStrict(level, d) == level > d

\* `if (level >= depth) continue;`
TooDeep(level, d) == level >= d

\* Lines 798-818: the root lookup and the root node.
AddRoot ==
  /\ gpc = "root"
  /\ \E r \in WalletResults(network) :
       /\ gpc' = IF r = "throw" THEN "threw" ELSE "loop"
       /\ rootFetched' = (r = "wallet")
       /\ lookupFailed' = (r # "wallet")
       /\ lookups' = Append(lookups, [address |-> rootAddress, result |-> r])
       /\ nodes' = IF r = "wallet" THEN Append(nodes, [address |-> rootAddress, level |-> 0])
                   ELSE nodes
       /\ visited' = IF r = "wallet" THEN visited \cup {rootAddress} ELSE visited
  /\ UNCHANGED <<args, xvars, cvars, edges, queue, ivars>>

\* One turn of the while loop that ends at `continue`.
SkipDeep ==
  /\ gpc = "loop"
  /\ LoopGuard(queue, nodes, maxNodes)
  /\ TooDeep(Head(queue).level, depth)
  /\ queue' = Tail(queue)
  /\ UNCHANGED <<args, xvars, cvars, gpc, rootFetched, lookupFailed, lookups, nodes, edges, visited, ivars>>

\* One turn of the while loop that expands the dequeued node: the transaction
\* fetch, the scan, and the loop over the connections with its lookups.
Expand ==
  /\ gpc = "loop"
  /\ LoopGuard(queue, nodes, maxNodes)
  /\ ~TooDeep(Head(queue).level, depth)
  /\ \E r \in TxResults(network, ledger, Head(queue).address, GraphTxLimit) :
       LET address == Head(queue).address
           level == Head(queue).level
           conns == Slice(Connections(<<>>, r.list, address))
           lookable == IF "wallet" \in WalletResults(network) THEN ConnAddrs(conns) ELSE {}
       IN /\ ~r.threw
          /\ \E found \in SUBSET lookable :
               LET st == AddConnections([nodes |-> nodes, edges |-> edges,
                                         visited |-> visited, queue |-> Tail(queue),
                                         lookups |-> lookups],
                                        conns, address, level, found)
               IN /\ lookupFailed' =
                       (\/ lookupFailed
                        \/ (ConnAddrs(conns) \ visited) \ found # {}
                        \/ r.list # FetchWalletTransactions(network, ledger, address,
                                                            GraphTxLimit, "ok"))
                  /\ lookups' = st.lookups
                  /\ nodes' = st.nodes
                  /\ edges' = st.edges
                  /\ visited' = st.visited
                  /\ queue' = st.queue
  /\ UNCHANGED <<args, xvars, cvars, gpc, rootFetched, ivars>>

\* A cache read that rejects inside the turn (in getWalletTransactions, or in a
\* counterpart's getWalletInfo) rejects buildWalletGraph: nothing catches it.
ExpandThrows ==
  /\ gpc = "loop"
  /\ LoopGuard(queue, nodes, maxNodes)
  /\ ~TooDeep(Head(queue).level, depth)
  /\ [threw |-> TRUE, list |-> <<>>]
        \in TxResults(network, ledger, Head(queue).address, GraphTxLimit)
  /\ gpc' = "threw"
  /\ UNCHANGED <<args, xvars, cvars, rootFetched, lookupFailed, lookups, nodes, edges, visited, queue, ivars>>

\* The loop ends and { nodes, edges, clusters: [] } is returned.
ReturnGraph ==
  /\ gpc = "loop"
  /\ ~LoopGuard(queue, nodes, maxNodes)
  /\ gpc' = "returned"
  /\ UNCHANGED <<args, xvars, cvars, rootFetched, lookupFailed, lookups, nodes, edges, visited, queue, ivars>>

\* -------------------------------------------------------- investigateWallet
EmptyGraph == [nodes |-> <<>>, edges |-> <<>>]

\* tx.value summed over a list (reduce with parseFloat).
RECURSIVE TotalValue(_)
TotalValue(txs) == IF txs = <<>> THEN 0 ELSE Head(txs).value + TotalValue(Tail(txs))

\* A variant of analyzeBehaviorPattern without the test for the empty list.
AnalyzeBehaviorPatternNoEmptyCase(txs) ==
  IF Len(txs) > 100 /\ TotalValue(txs) > Len(txs)
  THEN "High-frequency, high-value transactions - Possible exchange or business"
  ELSE IF Len(txs) > 50 THEN "Active wallet with regular transactions"
  ELSE IF Len(txs) < 10 THEN "Low activity wallet - Possibly dormant or new"
  ELSE "Normal transaction pattern"

\* analyzeBehaviorPattern; avgValue > 1 is total > length.
AnalyzeBehaviorPattern(txs) ==
  IF Len(txs) = 0 THEN "No transaction history"
  ELSE IF Len(txs) > 100 /\ TotalValue(txs) > Len(txs)
  THEN "High-frequency, high-value transactions - Possible exchange or business"
  ELSE IF Len(txs) > 50 THEN "Active wallet with regular transactions"
  ELSE IF Len(txs) < 10 THEN "Low activity wallet - Possibly dormant or new"
  ELSE "Normal transaction pattern"

\* analyzeVolume
AnalyzeVolume(txs) ==
  IF Len(txs) = 0 THEN "No volume data"
  ELSE IF TotalValue(txs) > 1000 THEN "Very high volume - Major player or institutional"
  ELSE IF TotalValue(txs) > 100 THEN "High volume - Active trader or business"
  ELSE IF TotalValue(txs) > 10 THEN "Moderate volume - Regular user"
  ELSE "Low volume - Casual user"

\* The analysis of a returned result; a result that is not returned has none.
NoAnalysis == [behaviorPattern |-> "", volumeAnalysis |-> ""]
Analysis(txs) ==
  [behaviorPattern |-> AnalyzeBehaviorPattern(txs), volumeAnalysis |-> AnalyzeVolume(txs)]

\* The record under construction; status "null" is the returned null.
ResultOf(status, txs, graph, connected) ==
  [status |-> status, transactions |-> txs, graph |-> graph, connectedWallets |-> connected,
   analysis |-> IF status = "ok" THEN Analysis(txs) ELSE NoAnalysis]
NoResult == ResultOf("pending", <<>>, EmptyGraph, <<>>)
NullResult == ResultOf("null", <<>>, EmptyGraph, <<>>)

\* A variant that goes on to the transaction fetch whatever the lookup returned.
AfterWalletAlwaysOn(r) == "txs"

\* `if (!wallet) throw ...`, caught by the function's own try: return null.
AfterWallet(r) == IF r = "wallet" THEN "txs" ELSE "null"

\* Lines 918-925: the wallet lookup.
InvWallet ==
  /\ ipc = "wallet"
  /\ \E r \in WalletResults(network) :
       /\ iwallet' = r
       /\ ipc' = AfterWallet(r)
       /\ result' = IF AfterWallet(r) = "null" THEN NullResult ELSE result
  /\ UNCHANGED <<args, xvars, cvars, gvars, txStarted>>

\* Lines 927-931: the transaction fetch, when the option asks for it.  The list
\* is kept in result.transactions.
InvTransactions ==
  /\ ipc = "txs"
  /\ IF fetchTransactions
     THEN \E r \in TxResults(network, ledger, rootAddress, InvestigateTxLimit) :
            /\ txStarted' = TRUE
            /\ ipc' = IF r.threw THEN "null" ELSE "graph"
            /\ result' = IF r.threw THEN NullResult
                         ELSE ResultOf("pending", r.list, EmptyGraph, <<>>)
     ELSE /\ ipc' = "graph"
          /\ result' = ResultOf("pending", <<>>, EmptyGraph, <<>>)
          /\ UNCHANGED txStarted
  /\ UNCHANGED <<args, xvars, cvars, gvars, iwallet>>

\* Lines 933-937: the graph build, when the option asks for it.
InvGraph ==
  /\ ipc = "graph"
  /\ buildGraph
  /\ ipc' = "building"
  /\ gpc' = "root"
  /\ UNCHANGED <<args, xvars, cvars, rootFetched, lookupFailed, lookups, nodes, edges, visited, queue, iwallet, txStarted, result>>

\* The record investigateWallet makes of one edge.
ConnectedWallet(e, address) ==
  [address |-> IF e.target = address THEN e.source ELSE e.target,
   relationship |-> "both",
   transactionCount |-> e.transactions,
   totalVolume |-> e.totalVolume,
   firstInteraction |-> e.firstTx,
   lastInteraction |-> e.lastTx]

\* A variant that leaves out the edges that touch the investigated address.
ConnectedWalletsOffRoot(es, address) ==
  LET off == SelectSeq(es, LAMBDA e : e.source # address /\ e.target # address)
  IN [i \in 1..Len(off) |-> ConnectedWallet(off[i], address)]

\* Lines 939-949: graph.edges.map(...), one record per edge of the graph.
ConnectedWallets(es, address) ==
  [i \in 1..Len(es) |-> ConnectedWallet(es[i], address)]

\* Lines 939-980: the result is assembled and returned.
InvReturn ==
  /\ \/ ipc = "graph" /\ ~buildGraph
     \/ ipc = "building" /\ gpc = "returned"
  /\ ipc' = "returned"
  /\ result' = ResultOf("ok", result.transactions, [nodes |-> nodes, edges |-> edges],
                         ConnectedWallets(edges, rootAddress))
  /\ UNCHANGED <<args, xvars, cvars, gvars, iwallet, txStarted>>

\* Lines 981-984: a rejected buildWalletGraph is caught: return null.
InvGraphThrew ==
  /\ ipc = "building"
  /\ gpc = "threw"
  /\ ipc' = "null"
  /\ result' = NullResult
  /\ UNCHANGED <<args, xvars, cvars, gvars, iwallet, txStarted>>


\* ===================================================== the lookups, stepwise
\* Values a lookup handles: a wallet, a transaction list, one transaction, and
\* the markers for "nothing yet", a returned null and a rejected promise.
ValueOf(kind, provider, at, list) ==
  [kind |-> kind, provider |-> provider, at |-> at, list |-> list]
NoValue == ValueOf("none", "", 0, <<>>)
NullValue == ValueOf("null", "", 0, <<>>)
ThrowValue == ValueOf("throw", "", 0, <<>>)
EmptyTxs == ValueOf("txs", "", 0, <<>>)

Ops == {"info", "txs", "details"}
\* The cache keys wallet_info_{network}_{address}, tx_details_{network}_{hash}
\* and wallet_txs_{network}_{address}_{limit}; limit is 0 where the key has none.
KeyOf(op, net, id, limit) == <<op, net, id, IF op = "txs" THEN limit ELSE 0>>
CallKinds ==
  {<<op, net, limit>> \in Ops \X Networks \X {0, GraphTxLimit, InvestigateTxLimit} :
     (op = "txs") = (limit # 0)}
\* The keys the calls of one operation on one network use.
CacheKeys(op, net) == {KeyOf(k[1], k[2], 1, k[3]) : k \in {k \in CallKinds : k[1] = op /\ k[2] = net}}

\* ---- the response cache (lib/database)
NoEntry == [present |-> FALSE, value |-> NoValue, expires |-> 0, writer |-> 0]
\* An entry is invisible once past its expiry.
Live(e, t) == e.present /\ t <= e.expires
\* getCachedData(key): the value of a live entry, null otherwise.
GetCachedData(c, key, t) == IF Live(c[key], t) THEN c[key].value ELSE NoValue
\* cacheAPIResponse(key, value, ttl)
CacheAPIResponse(c, key, value, ttl, t, who) ==
  [c EXCEPT ![key] = [present |-> TRUE, value |-> value, expires |-> t + ttl, writer |-> who]]

\* ---- the providers
\* A variant of the provider order that asks blockchair first.
ProvidersBlockchairFirst(op, net) ==
  IF op = "info"
  THEN IF net = "bitcoin" THEN <<"blockchair", "blockchain.info">>
       ELSE IF net = "ethereum" THEN <<"ethplorer">> ELSE <<>>
  ELSE IF net = "bitcoin" THEN <<"blockchain.info">> ELSE <<>>

\* The providers each operation tries for a network, in order.
Providers(op, net) ==
  IF op = "info"
  THEN IF net = "bitcoin" THEN <<"blockchain.info", "blockchair">>
       ELSE IF net = "ethereum" THEN <<"ethplorer">> ELSE <<>>
  ELSE IF net = "bitcoin" THEN <<"blockchain.info">> ELSE <<>>

\* What one provider attempt that answers hands back, normalised.  The wallet
\* request asks blockchain.info for no transactions (limit=0), so firstSeen and
\* lastSeen are the time of the request.
Answer(op, provider, led, id, limit, t) ==
  IF op = "info"
  THEN ValueOf("wallet", provider, IF provider = "blockchain.info" THEN t ELSE 0, <<>>)
  ELSE IF op = "txs"
  THEN ValueOf("txs", "", 0, ProviderTxs(led, id, limit))
  ELSE ValueOf("tx", "", 0, SelectSeq(led, LAMBDA tx : tx.hash = id))

\* Whether the attempt yields data: the provider answered and, for a single
\* transaction, knows the hash.
Yields(op, outcome, v) == outcome = "ok" /\ (op = "details" => v.list # <<>>)

\* What the operation returns when it has no data: null, or [] for a list.
Nothing(op) == IF op = "txs" THEN EmptyTxs ELSE NullValue

\* A variant of the cache test that never takes the cached value.
IgnoresCached(cached) == FALSE

\* `if (cached) return cached;`
ReturnsCached(cached) == cached.kind # "none"

\* A variant of the write test that skips lists of one transaction.
CachesLongLists(op, v) == op = "txs" => Len(v.list) > 1

\* `if (walletInfo)`, `if (txDetails)`, `if (transactions.length > 0)`.
Caches(op, v) == op = "txs" => CachesTransactions(v.list)

NewCall ==
  [pc |-> "new", op |-> "info", net |-> "bitcoin", limit |-> 0, read |-> "none",
   out |-> NoValue, data |-> NoValue, requests |-> 0, tried |-> <<>>, start |-> 0,
   after |-> {}, expires |-> 0, src |-> 0, ok |-> FALSE]
CallKey(c) == KeyOf(c.op, c.net, 1, c.limit)
\* The call returns v; ok tells a cached value or a provider's answer from the
\* value of a path on which nothing was obtained.
Finish(c, v, ok) == [c EXCEPT !.pc = "done", !.out = v, !.ok = ok]
Finished == {i \in 1..MaxCalls : calls[i].pc = "done"}

\* The call and its awaited cache read (the first statement of each operation).
\* One behaviour runs calls of one operation on one network and address: calls
\* with different keys share nothing but the clock.
CallStart(i) ==
  /\ calls[i].pc = "new"
  /\ i > 1 => calls[i - 1].pc # "new"
  /\ \E k \in {k \in CallKinds : k[1] = entry /\ k[2] = network}, r \in {"read", "throw"} :
       LET c0 == [calls[i] EXCEPT !.op = k[1], !.net = k[2], !.limit = k[3],
                                  !.start = now, !.after = Finished]
           key == CallKey(c0)
           cached == GetCachedData(cache, key, now)
       IN calls' = [calls EXCEPT ![i] =
            IF r = "throw" THEN Finish([c0 EXCEPT !.read = "throw"], ThrowValue, FALSE)
            ELSE IF ReturnsCached(cached)
            THEN Finish([c0 EXCEPT !.read = "hit", !.expires = cache[key].expires,
                                   !.src = cache[key].writer], cached, TRUE)
            ELSE IF Providers(c0.op, c0.net) = <<>>
            THEN Finish([c0 EXCEPT !.read = "miss"], Nothing(c0.op), FALSE)
            ELSE [c0 EXCEPT !.read = "miss", !.pc = "fetch1"]]
  /\ UNCHANGED <<args, xvars, gvars, ivars, cache, now, written>>

\* One provider attempt and what the operation does with its answer.
CallFetch(i) ==
  /\ calls[i].pc \in {"fetch1", "fetch2"}
  /\ \E outcome \in ProviderOutcome :
       LET c == calls[i]
           n == IF c.pc = "fetch1" THEN 1 ELSE 2
           v == Answer(c.op, Providers(c.op, c.net)[n], ledger, 1, c.limit, now)
           c1 == [c EXCEPT !.requests = @ + 1,
                           !.tried = Append(@, <<Providers(c.op, c.net)[n], outcome>>)]
       IN calls' = [calls EXCEPT ![i] =
            IF Yields(c.op, outcome, v)
            THEN IF Caches(c.op, v) THEN [c1 EXCEPT !.pc = "write", !.data = v]
                 ELSE Finish(c1, v, TRUE)
            ELSE IF n < Len(Providers(c.op, c.net)) THEN [c1 EXCEPT !.pc = "fetch2"]
            ELSE Finish(c1, Nothing(c.op), FALSE)]
  /\ UNCHANGED <<args, xvars, gvars, ivars, cache, now, written>>

\* The awaited cache write and the return; a write that rejects is caught by
\* the operation's try block.
CallWrite(i) ==
  /\ calls[i].pc = "write"
  /\ \E w \in CacheWriteOutcome :
       LET c == calls[i] IN
       IF w = "ok"
       THEN /\ cache' = CacheAPIResponse(cache, CallKey(c), c.data, CACHE_TTL, now, i)
            /\ written' = written \cup {<<CallKey(c), c.data>>}
            /\ calls' = [calls EXCEPT ![i] =
                 Finish([c EXCEPT !.expires = now + CACHE_TTL, !.src = i], c.data, TRUE)]
       ELSE /\ calls' = [calls EXCEPT ![i] = Finish(c, Nothing(c.op), FALSE)]
            /\ UNCHANGED <<cache, written>>
  /\ UNCHANGED <<args, xvars, gvars, ivars, now>>

\* Time passes.
Tick ==
  /\ now + TickStep <= MaxTime
  /\ now' = now + TickStep
  /\ UNCHANGED <<args, xvars, gvars, ivars, cache, calls, written>>

\* ------------------------------------------------------------------- Spec
EmptyGraphState ==
  /\ rootFetched = FALSE
  /\ lookupFailed = FALSE
  /\ lookups = <<>>
  /\ nodes = <<>>
  /\ edges = <<>>
  /\ visited = {}
  /\ queue = <<[address |-> rootAddress, level |-> 0]>>

\* The components are not mounted and no wallet is being classified.
NoLayout ==
  [mounted |-> FALSE, graphNodes |-> 0, rendered |-> 0, dirty |-> FALSE, frameCount |-> 0,
   scheduled |-> FALSE, steps |-> 0]
NoUI ==
  [searchQuery |-> <<>>, searchType |-> "wallet", isSearching |-> FALSE,
   investigationResult |-> 0, transactionResult |-> 0, searches |-> <<>>, toast |-> ""]
NoRisk == [factors |-> {}, classified |-> FALSE, score |-> 0, level |-> "safe"]
NoFreq == [timestamps |-> <<>>, analysed |-> FALSE, frequencyAnalysis |-> ""]
Idle == layout = NoLayout /\ ui = NoUI /\ risk = NoRisk /\ freq = NoFreq

NoCalls ==
  /\ cache = [k \in CacheKeys(entry, network) |-> NoEntry]
  /\ now = 0
  /\ calls = [i \in 1..MaxCalls |-> NewCall]
  /\ written = {}

\* buildWalletGraph(rootAddress, network, depth, maxNodes) called directly.
InitGraph ==
  /\ entry = "graph"
  /\ ledger \in Ledgers
  /\ network \in Networks
  /\ rootAddress = 1
  /\ depth \in 0..MaxDepth
  /\ maxNodes \in 1..MaxNodesArg
  /\ fetchTransactions = FALSE
  /\ buildGraph = FALSE
  /\ gpc = "root"
  /\ EmptyGraphState
  /\ ipc = "idle"
  /\ iwallet = "pending"
  /\ txStarted = FALSE
  /\ result = NoResult
  /\ NoCalls
  /\ Idle

\* investigateWallet(address, network, {fetchTransactions, buildGraph, graphDepth}).
InitInvestigate ==
  /\ entry = "investigate"
  /\ ledger \in Ledgers
  /\ network \in Networks
  /\ rootAddress = 1
  /\ depth \in 0..MaxDepth
  /\ maxNodes = InvestigateMaxNodes
  /\ fetchTransactions \in BOOLEAN
  /\ buildGraph \in BOOLEAN
  /\ gpc = "idle"
  /\ EmptyGraphState
  /\ ipc = "wallet"
  /\ iwallet = "pending"
  /\ txStarted = FALSE
  /\ result = NoResult
  /\ NoCalls
  /\ Idle

Init == InitGraph \/ InitInvestigate

Next ==
  \/ AddRoot \/ SkipDeep \/ Expand \/ ExpandThrows \/ ReturnGraph
  \/ InvWallet \/ InvTransactions \/ InvGraph \/ InvReturn \/ InvGraphThrew

Spec == Init /\ [][Next]_vars

\* ---------------------------------------------------------------- SpecCache
\* The ledgers of the lookups: none, or one transaction (hash 1) that names
\* address 1.
CacheLedgers == {<<>>, Stamp(<<[inputs |-> <<1>>, outputs |-> <<Unknown>>, value |-> 1]>>)}

InitCache ==
  /\ entry \in Ops
  /\ ledger \in CacheLedgers
  /\ network \in Networks
  /\ rootAddress = 1
  /\ depth = 0
  /\ maxNodes = 1
  /\ fetchTransactions = FALSE
  /\ buildGraph = FALSE
  /\ gpc = "idle"
  /\ EmptyGraphState
  /\ ipc = "idle"
  /\ iwallet = "pending"
  /\ txStarted = FALSE
  /\ result = NoResult
  /\ NoCalls
  /\ Idle

NextCache ==
  \/ \E i \in 1..MaxCalls : CallStart(i) \/ CallFetch(i) \/ CallWrite(i)
  \/ Tick

SpecCache == InitCache /\ [][NextCache]_vars

\* --------------------------------------------------------------- SpecLayout
\* The service at rest while a component runs.
AtRest ==
  /\ ledger = <<>>
  /\ network = "bitcoin"
  /\ rootAddress = 1
  /\ depth = 0
  /\ maxNodes = 1
  /\ fetchTransactions = FALSE
  /\ buildGraph = FALSE
  /\ gpc = "idle"
  /\ EmptyGraphState
  /\ ipc = "idle"
  /\ iwallet = "pending"
  /\ txStarted = FALSE
  /\ result = NoResult
  /\ NoCalls

\* animate(): below maxFrames it calls simulateForces (which returns at once
\* when the rendered node state is empty and otherwise replaces the node state
\* by a new array), draws, counts the frame and requests the next one.
Animate(l) ==
  IF l.frameCount < MaxFrames
  THEN [l EXCEPT !.steps = IF l.rendered > 0 THEN @ + 1 ELSE @,
                 !.dirty = @ \/ l.rendered > 0,
                 !.frameCount = @ + 1,
                 !.scheduled = TRUE]
  ELSE [l EXCEPT !.scheduled = FALSE]

\* The component is mounted with a graph: the first render has an empty node
\* state; the initialising effect sets the node state when the graph has
\* nodes; the animation effect starts its counter at 0 and calls animate().
LayoutMount ==
  /\ ~layout.mounted
  /\ \E g \in 0..MaxGraphNodes :
       layout' = Animate([layout EXCEPT !.mounted = TRUE, !.graphNodes = g, !.rendered = 0,
                                        !.dirty = g > 0, !.frameCount = 0])
  /\ UNCHANGED <<args, gvars, ivars, cvars, ui, risk, freq>>

\* A pending node state is rendered: simulateForces is a new function (its
\* dependency `nodes` changed), so the animation effect is cleaned up (the
\* requested frame is cancelled) and run again: a new counter at 0, animate().
LayoutRender ==
  /\ layout.mounted
  /\ layout.dirty
  /\ layout.steps < MaxSteps
  /\ layout' = Animate([layout EXCEPT !.rendered = layout.graphNodes, !.dirty = FALSE,
                                      !.scheduled = FALSE, !.frameCount = 0])
  /\ UNCHANGED <<args, gvars, ivars, cvars, ui, risk, freq>>

\* The requested animation frame arrives before the next render.
LayoutFrame ==
  /\ layout.mounted
  /\ layout.scheduled
  /\ layout.steps < MaxSteps
  /\ layout' = Animate(layout)
  /\ UNCHANGED <<args, gvars, ivars, cvars, ui, risk, freq>>

InitLayout ==
  /\ entry = "layout"
  /\ AtRest
  /\ Idle

NextLayout == LayoutMount \/ LayoutRender \/ LayoutFrame

SpecLayout == InitLayout /\ [][NextLayout]_vars

\* ------------------------------------------------------------------- SpecUI
\* Strings are sequences of characters.
Lower == {"a", "b", "c", "d", "e", "f", "g", "h", "i", "j", "k", "l", "m", "n", "o", "p", "q",
          "r", "s", "t", "u", "v", "w", "x", "y", "z"}
Upper == {"A", "B", "C", "D", "E", "F", "G", "H", "I", "J", "K", "L", "M", "N", "O", "P", "Q",
          "R", "S", "T", "U", "V", "W", "X", "Y", "Z"}
Digit == {"0", "1", "2", "3", "4", "5", "6", "7", "8", "9"}
\* [a-km-zA-HJ-NP-Z1-9], [a-z0-9], [a-fA-F0-9], [A-Za-z1-9]
Base58Class == (Lower \ {"l"}) \cup (Upper \ {"I", "O"}) \cup (Digit \ {"0"})
Bech32Class == Lower \cup Digit
HexClass == {"a", "b", "c", "d", "e", "f", "A", "B", "C", "D", "E", "F"} \cup Digit
TronClass == Upper \cup Lower \cup (Digit \ {"0"})

\* ^head cls{lo,hi}$ : head is a sequence of character sets.
MatchRun(str, head, cls, lo, hi) ==
  /\ Len(str) >= Len(head) + lo
  /\ Len(str) <= Len(head) + hi
  /\ \A n \in 1..Len(head) : str[n] \in head[n]
  /\ \A n \in (Len(head) + 1)..Len(str) : str[n] \in cls

\* String.prototype.trim for the blank.
RECURSIVE TrimStart(_)
TrimStart(str) == IF str # <<>> /\ Head(str) = " " THEN TrimStart(Tail(str)) ELSE str
RECURSIVE TrimEnd(_)
TrimEnd(str) ==
  IF str # <<>> /\ str[Len(str)] = " " THEN TrimEnd(SubSeq(str, 1, Len(str) - 1)) ELSE str
Trim(str) == TrimEnd(TrimStart(str))

detectNetworkFromAddress(address) ==
  LET trimmed == Trim(address) IN
  IF \/ MatchRun(trimmed, <<{"1", "3"}>>, Base58Class, 25, 34)
     \/ MatchRun(trimmed, <<{"b"}, {"c"}, {"1"}>>, Bech32Class, 39, 59)
  THEN "bitcoin"
  ELSE IF MatchRun(trimmed, <<{"0"}, {"x"}>>, HexClass, 40, 40) THEN "ethereum"
  ELSE IF MatchRun(trimmed, <<{"T"}>>, TronClass, 33, 33) THEN "tron"
  ELSE IF MatchRun(trimmed, <<{"L", "M"}>>, Base58Class, 26, 33) THEN "litecoin"
  ELSE "unknown"

isValidTransactionHash(hash, net) ==
  LET trimmed == Trim(hash) IN
  IF net \in {"bitcoin", "litecoin"} THEN MatchRun(trimmed, <<>>, HexClass, 64, 64)
  ELSE IF net \in {"ethereum", "tron"}
  THEN MatchRun(trimmed, <<{"0"}, {"x"}>>, HexClass, 64, 64)
  ELSE FALSE

\* The queries typed into the search input: nothing, transaction hashes of
\* both formats (one padded with a blank, one that starts like an address),
\* addresses of the four networks, and a string that is neither.
Repeat(ch, n) == [i \in 1..n |-> ch]
Queries ==
  {<<>>,
   Repeat("a", 64), <<" ">> \o Repeat("a", 64), <<"1">> \o Repeat("a", 63),
   <<"0", "x">> \o Repeat("a", 64),
   <<"1">> \o Repeat("a", 33), <<"0", "x">> \o Repeat("a", 40),
   <<"T">> \o Repeat("a", 33), <<"L">> \o Repeat("a", 30),
   Repeat("0", 33)}

\* What handleSearch does with (searchQuery, searchType) before its first
\* await: the call it makes, or the toast it ends with.
SearchVerdict(query, type) ==
  LET net == detectNetworkFromAddress(query) IN
  IF type = "wallet" /\ net # "unknown" THEN "investigate"
  ELSE IF type = "transaction"
  THEN IF net = "unknown" THEN "Could not detect blockchain network"
       ELSE IF ~isValidTransactionHash(query, net) THEN "Invalid transaction hash format"
       ELSE "details"
  ELSE "Invalid address or transaction hash"

\* handleSearch up to its first await (or to its return).  An empty query is
\* refused before any state is touched.
HandleSearchBegin(u) ==
  IF Trim(u.searchQuery) = <<>>
  THEN [u EXCEPT !.toast = "Please enter a wallet address or transaction hash"]
  ELSE LET v == SearchVerdict(u.searchQuery, u.searchType)
           awaits == v \in {"investigate", "details"}
       IN [u EXCEPT !.investigationResult = 0,
                    !.transactionResult = 0,
                    !.isSearching = awaits,
                    !.toast = IF awaits THEN "" ELSE v,
                    !.searches = Append(@, [query |-> u.searchQuery, type |-> u.searchType,
                                            verdict |-> v, awaiting |-> awaits])]

\* onChange of the input.
SetSearchQuery ==
  /\ \E q \in Queries : ui' = [ui EXCEPT !.searchQuery = q]
  /\ UNCHANGED <<args, gvars, ivars, cvars, layout, risk, freq>>

\* The two search type buttons.
SetSearchType ==
  /\ \E t \in {"wallet", "transaction"} : ui' = [ui EXCEPT !.searchType = t]
  /\ UNCHANGED <<args, gvars, ivars, cvars, layout, risk, freq>>

\* onKeyDown with Enter: handleSearch, whether or not a search is running.
SearchByEnter ==
  /\ Len(ui.searches) < MaxSearches
  /\ ui' = HandleSearchBegin(ui)
  /\ UNCHANGED <<args, gvars, ivars, cvars, layout, risk, freq>>

\* onClick of the search button, disabled while isSearching.
SearchByClick ==
  /\ ~ui.isSearching
  /\ Len(ui.searches) < MaxSearches
  /\ ui' = HandleSearchBegin(ui)
  /\ UNCHANGED <<args, gvars, ivars, cvars, layout, risk, freq>>

\* The awaited call of search i settles and handleSearch runs to its end:
\* a result is stored, a null or a rejection is only toasted; finally
\* setIsSearching(false).
SearchSettles(i) ==
  /\ i \in 1..Len(ui.searches)
  /\ ui.searches[i].awaiting
  /\ \E outcome \in {"result", "null", "throw"} :
       /\ outcome = "throw" => ui.searches[i].verdict = "details"
       /\ ui' = [ui EXCEPT
            !.searches[i].awaiting = FALSE,
            !.isSearching = FALSE,
            !.investigationResult =
               IF outcome = "result" /\ ui.searches[i].verdict = "investigate" THEN i ELSE @,
            !.transactionResult =
               IF outcome = "result" /\ ui.searches[i].verdict = "details" THEN i ELSE @,
            !.toast =
               IF outcome = "throw" THEN "Search failed"
               ELSE IF ui.searches[i].verdict = "investigate"
               THEN IF outcome = "result" THEN "Investigation complete!"
                    ELSE "Failed to investigate wallet"
               ELSE IF outcome = "result" THEN "Transaction found!"
                    ELSE "Transaction not found"]
  /\ UNCHANGED <<args, gvars, ivars, cvars, layout, risk, freq>>

InitUI ==
  /\ entry = "ui"
  /\ AtRest
  /\ Idle

NextUI ==
  \/ SetSearchQuery \/ SetSearchType \/ SearchByEnter \/ SearchByClick
  \/ \E i \in 1..MaxSearches : SearchSettles(i)

SpecUI == InitUI /\ [][NextUI]_vars

\* ----------------------------------------------------------------- SpecRisk
\* The risk scoring logic: the points each factor adds or subtracts.
Adds ==
  [ransomware |-> 50, mixer |-> 40, darknet |-> 35, sanctioned |-> 45, abuseReports |-> 30,
   suspiciousPattern |-> 20, newWallet |-> 10, highVolume |-> 15]
Subtracts == [exchange |-> 20, longHistory |-> 15, regularPattern |-> 10, verified |-> 25]
RiskFactors == DOMAIN Adds \cup DOMAIN Subtracts

RECURSIVE Points(_)
Points(F) ==
  IF F = {} THEN 0
  ELSE LET f == CHOOSE f \in F : TRUE
       IN (IF f \in DOMAIN Adds THEN Adds[f] ELSE 0 - Subtracts[f]) + Points(F \ {f})
\* Final Score = Clamp(0, 100)
Clamp(n) == IF n < 0 THEN 0 ELSE IF n > 100 THEN 100 ELSE n
RiskScore(F) == Clamp(Points(F))
\* 0-20 safe, 21-40 low, 41-60 medium, 61-80 high, 81-100 critical
RiskLevel(score) ==
  IF score <= 20 THEN "safe"
  ELSE IF score <= 40 THEN "low"
  ELSE IF score <= 60 THEN "medium"
  ELSE IF score <= 80 THEN "high"
  ELSE "critical"

\* The risk fields of every wallet the service builds from a provider answer.
ProviderWallet == [isRansomware |-> FALSE, riskScore |-> 0, riskLevel |-> "safe"]

\* The score and the level of a wallet with the given factors.
RiskClassify ==
  /\ ~risk.classified
  /\ risk' = [risk EXCEPT !.classified = TRUE,
                          !.score = RiskScore(risk.factors),
                          !.level = RiskLevel(RiskScore(risk.factors))]
  /\ UNCHANGED <<args, gvars, ivars, cvars, layout, ui, freq>>

InitRisk ==
  /\ entry = "risk"
  /\ AtRest
  /\ layout = NoLayout
  /\ ui = NoUI
  /\ freq = NoFreq
  /\ risk \in [factors : SUBSET RiskFactors, classified : {FALSE}, score : {0}, level : {"safe"}]

NextRisk == RiskClassify

SpecRisk == InitRisk /\ [][NextRisk]_vars

\* --------------------------------------------------------------- SpecFanOut
\* buildWalletGraph on ledgers whose transactions have many outputs, so that
\* one address has more connections than the loop over them takes.  Addresses
\* are 1..NumFanAddr and the root is 1.
Run(a, b) == [i \in 1..(b - a + 1) |-> a + i - 1]
\* A payment of the root to the addresses 2..k, for the three largest k, and a
\* payment of the last address to the one before it and to the root.
FanShapes ==
  {[inputs |-> <<1>>, outputs |-> Run(2, k), value |-> 1] : k \in (NumFanAddr - 2)..NumFanAddr}
    \cup {[inputs |-> <<NumFanAddr>>, outputs |-> <<NumFanAddr - 1, 1>>, value |-> 2]}
FanLedgers == {Stamp(s) : s \in SeqsUpTo(FanShapes, MaxTx)}

InitFanOut ==
  /\ entry = "graph"
  /\ ledger \in FanLedgers
  /\ network = "bitcoin"
  /\ rootAddress = 1
  /\ depth \in 1..MaxFanDepth
  /\ maxNodes \in 1..MaxFanNodes
  /\ fetchTransactions = FALSE
  /\ buildGraph = FALSE
  /\ gpc = "root"
  /\ EmptyGraphState
  /\ ipc = "idle"
  /\ iwallet = "pending"
  /\ txStarted = FALSE
  /\ result = NoResult
  /\ NoCalls
  /\ Idle

NextFanOut == AddRoot \/ SkipDeep \/ Expand \/ ExpandThrows \/ ReturnGraph

SpecFanOut == InitFanOut /\ [][NextFanOut]_vars

\* ------------------------------------------------------------ SpecFrequency
\* analyzeFrequency on the timestamps of a transaction list, in hours, in the
\* order of the list.
RECURSIVE SumIntervals(_)
\* intervals = timestamps[i - 1] - timestamps[i] for i = 1..length-1, summed.
SumIntervals(ts) ==
  IF Len(ts) < 2 THEN 0 ELSE (ts[1] - ts[2]) + SumIntervals(Tail(ts))

\* The label for an average interval of total / count: days < n is
\* total < n * DayHours * count.
FrequencyLabel(total, count) ==
  IF total < 1 * DayHours * count THEN "Multiple transactions per day - Very active"
  ELSE IF total < 7 * DayHours * count THEN "Weekly transaction pattern"
  ELSE IF total < 30 * DayHours * count THEN "Monthly transaction pattern"
  ELSE "Infrequent transactions"

analyzeFrequency(ts) ==
  IF Len(ts) < 2 THEN "Insufficient data"
  ELSE FrequencyLabel(SumIntervals(ts), Len(ts) - 1)

\* The times of transactions: gaps of half a day, of days, of weeks, of months.
Stamps == {0, 12, 60, 300, 1200}
StampLists == SeqsUpTo(Stamps, MaxStamps)

AnalyzeFrequencyCall ==
  /\ ~freq.analysed
  /\ freq' = [freq EXCEPT !.analysed = TRUE,
                          !.frequencyAnalysis = analyzeFrequency(freq.timestamps)]
  /\ UNCHANGED <<args, gvars, ivars, cvars, layout, ui, risk>>

InitFrequency ==
  /\ entry = "frequency"
  /\ AtRest
  /\ layout = NoLayout
  /\ ui = NoUI
  /\ risk = NoRisk
  /\ freq \in [timestamps : StampLists, analysed : {FALSE}, frequencyAnalysis : {""}]

NextFrequency == AnalyzeFrequencyCall

SpecFrequency == InitFrequency /\ [][NextFrequency]_vars

\* ----------------------------------------------------------------- claims
NodeAddrs == {nodes[i].address : i \in 1..Len(nodes)}

\* C1: every graph buildWalletGraph returns has at most maxNodes nodes.
C1_NodeLimit == gpc = "returned" => Len(nodes) <= maxNodes

\* The same limit for the builds whose root lookup returned a wallet: it fails
\* there too (maxNodes = 2, a root with two counterparts).
NodeLimitWhenRootFetched == (gpc = "returned" /\ rootFetched) => Len(nodes) <= maxNodes

\* C2: in every returned graph both endpoints of every edge are addresses of
\* nodes of that graph.
C2_EdgeEndpointsAreNodes ==
  gpc = "returned" =>
    \A i \in 1..Len(edges) : edges[i].source \in NodeAddrs /\ edges[i].target \in NodeAddrs

\* The same for the builds whose root lookup returned a wallet: an edge to a
\* counterpart whose lookup failed is recorded there too.
EdgeEndpointsWhenRootFetched ==
  (gpc = "returned" /\ rootFetched) =>
    \A i \in 1..Len(edges) : edges[i].source \in NodeAddrs /\ edges[i].target \in NodeAddrs

\* C3: in every returned graph there is at most one edge per unordered pair of
\* addresses.
C3_OneEdgePerPair ==
  gpc = "returned" =>
    \A i, j \in 1..Len(edges) :
      i # j => {edges[i].source, edges[i].target} # {edges[j].source, edges[j].target}

\* The same for the builds in which every edge joins two nodes: A reaches B,
\* then B reaches A, and both edges are kept.
OneEdgePerPairAmongNodes ==
  (gpc = "returned" /\ rootFetched /\ EdgeEndpointsWhenRootFetched) =>
    \A i, j \in 1..Len(edges) :
      i # j => {edges[i].source, edges[i].target} # {edges[j].source, edges[j].target}

\* A build whose root lookup failed and that returned nodes and edges.
RootFailureReturnsEmptyGraph ==
  (gpc = "returned" /\ ~rootFetched) => (nodes = <<>> /\ edges = <<>>)

\* C4: in every returned graph every node was discovered at a level not
\* greater than the requested depth.
C4_NodeLevelsWithinDepth ==
  gpc = "returned" => \A i \in 1..Len(nodes) : nodes[i].level <= depth

\* A build that ran to an empty queue and kept a node discovered at level
\* `depth`, whose queue entry was dequeued and not expanded.
C4_Witness ==
  /\ gpc = "returned"
  /\ depth >= 1
  /\ queue = <<>>
  /\ \E i \in 1..Len(nodes) : nodes[i].level = depth
  /\ \E i \in 1..Len(edges) : edges[i].target \in NodeAddrs

\* C5: in every returned graph the node addresses are pairwise distinct.
C5_DistinctNodes ==
  gpc = "returned" =>
    \A i, j \in 1..Len(nodes) : i # j => nodes[i].address # nodes[j].address

\* A returned graph whose root lookup failed, whose root was found again as a
\* counterpart and added then, and in which an expanded node reached an
\* address that was a node already.
C5_Witness ==
  /\ gpc = "returned"
  /\ ~rootFetched
  /\ rootAddress \in NodeAddrs
  /\ Len(nodes) >= 2

\* C6: when the root lookup fails buildWalletGraph returns no graph.
C6_RootFailureFailsBuild == gpc = "returned" => rootFetched

\* C7: when investigateWallet's wallet lookup fails it returns null and starts
\* neither the transaction fetch nor the graph build.
C7_RootFailureIsTerminal ==
  (entry = "investigate" /\ iwallet \in {"null", "throw"}) =>
     /\ ipc = "null"
     /\ result = NullResult
     /\ ~txStarted
     /\ gpc = "idle"

\* investigateWallet has returned null after a lookup that found no wallet.
C7_Witness ==
  /\ entry = "investigate"
  /\ iwallet = "null"
  /\ ipc = "null"
  /\ fetchTransactions
  /\ buildGraph

\* C8: when the wallet lookup succeeds investigateWallet returns a result,
\* whatever goes wrong in the transaction fetch or the graph build.
C8_SubstepFailuresDegrade ==
  (entry = "investigate" /\ iwallet = "wallet" /\ ipc \in {"returned", "null"}) =>
     /\ ipc = "returned"
     /\ result.status = "ok"

\* The second of two getWalletInfo calls for one key: j started after i had
\* returned a wallet and before the expiry of the entry i's wallet was in.
Follows(i, j) ==
  /\ i # j
  /\ entry = "info"
  /\ calls[i].pc = "done"
  /\ calls[i].out.kind = "wallet"
  /\ calls[j].pc # "new"
  /\ i \in calls[j].after
  /\ CallKey(calls[i]) = CallKey(calls[j])
  /\ calls[j].start < calls[i].expires
Returned(c) == c.pc = "done" /\ c.out.kind # "throw"

\* C9 as stated: the second call makes no provider request and returns the
\* data the first call returned.
C9_SecondCallSameData ==
  \A i, j \in 1..MaxCalls :
    Follows(i, j) =>
      /\ calls[j].requests = 0
      /\ Returned(calls[j]) => calls[j].out = calls[i].out

\* C9 as amended: the second call makes no provider request and, when its
\* cache read succeeds, returns the cached entry; that is the first call's
\* data unless another call wrote the key in between.
C9_SecondCallServedFromCache ==
  \A i, j \in 1..MaxCalls :
    Follows(i, j) =>
      /\ calls[j].requests = 0
      /\ calls[j].pc = "done"
      /\ Returned(calls[j]) =>
           /\ calls[j].read = "hit"
           /\ calls[j].out.kind = "wallet"
           /\ calls[j].src = calls[i].src => calls[j].out = calls[i].out

\* A first call that asked a provider and cached the wallet, and a second call
\* that started later, within the TTL, and returned the same wallet.
C9_Witness ==
  \E i, j \in 1..MaxCalls :
    /\ Follows(i, j)
    /\ calls[i].requests >= 1
    /\ calls[i].src = i
    /\ calls[j].start > calls[i].start
    /\ Returned(calls[j])
    /\ calls[j].out = calls[i].out

\* A call that returned a cached value or a provider's answer.
Successful(c) == c.pc = "done" /\ c.ok
ReadBeforeProviders == \A i \in 1..MaxCalls : calls[i].requests > 0 => calls[i].read = "miss"

\* C10 as stated: every successful result, a zero-transaction list included,
\* was written to the cache under its key before it was returned, and the
\* cache is read before any provider is asked.
C10_EverySuccessCached ==
  /\ \A i \in 1..MaxCalls :
       Successful(calls[i]) => <<CallKey(calls[i]), calls[i].out>> \in written
  /\ ReadBeforeProviders

\* C10 as amended: every successful result except an empty transaction list.
C10_NonEmptySuccessCached ==
  /\ \A i \in 1..MaxCalls :
       (Successful(calls[i]) /\ ~(calls[i].op = "txs" /\ calls[i].out.list = <<>>))
         => <<CallKey(calls[i]), calls[i].out>> \in written
  /\ ReadBeforeProviders

\* A getWalletTransactions call that missed the cache, asked the provider, and
\* returned a non-empty list it had cached.
C10_Witness ==
  \E i \in 1..MaxCalls :
    /\ Successful(calls[i])
    /\ calls[i].op = "txs"
    /\ calls[i].read = "miss"
    /\ calls[i].requests = 1
    /\ calls[i].out.list # <<>>
    /\ cache[CallKey(calls[i])].value = calls[i].out

\* ------------------------------------------------- C11..C13: the providers
\* The providers a call asked, in order, and the answers it got.
TriedProviders(c) == [n \in 1..Len(c.tried) |-> c.tried[n][1]]
\* The call has left the provider chain: it returned, or holds data to cache.
PastProviders(c) == c.pc \in {"write", "done"} /\ Len(c.tried) >= 1
\* The call returned its no-data value because no provider gave data (not
\* because a cache read or write rejected).
FailedForLackOfData(c) == c.pc = "done" /\ ~c.ok /\ c.read = "miss" /\ c.data = NoValue
BitcoinInfo(c) == c.pc # "new" /\ c.op = "info" /\ c.net = "bitcoin"

C12_TransactionFallback ==
  \A i \in 1..MaxCalls :
    LET c == calls[i] IN
    (c.op \in {"txs", "details"} /\ c.net = "bitcoin" /\ FailedForLackOfData(c)) =>
      \E n \in 1..Len(c.tried) : c.tried[n][1] = "blockchair"

\* The callers' view of a lookup that ended without data after every provider
\* was asked: all answered not-found, or all attempts errored.
EndedWithout(c, outcome) ==
  /\ c.op = "info"
  /\ FailedForLackOfData(c)
  /\ Len(c.tried) = Len(Providers(c.op, c.net))
  /\ \A n \in 1..Len(c.tried) : c.tried[n][2] = outcome

\* C13: a lookup that ended because the providers reported the address absent
\* and one that ended because the attempts errored give their callers
\* different outcomes.
C13_NotFoundVersusError ==
  \A i, j \in 1..MaxCalls :
    (EndedWithout(calls[i], "notfound") /\ EndedWithout(calls[j], "error")) =>
      calls[i].out # calls[j].out

\* ------------------------------------------------ C14, C15: small scenarios
\* The transactions the provider lists for the root at the builder's limit,
\* the addresses they name besides the root, and per counterpart the number
\* and the summed value of the transactions that name it.
RootTxs == FetchWalletTransactions(network, ledger, rootAddress, GraphTxLimit, "ok")
Naming(X) == {i \in 1..Len(RootTxs) : InTx(RootTxs[i], X)}
Counterparts == {X \in Addr \ {rootAddress} : Naming(X) # {}}
RECURSIVE SumValues(_)
SumValues(I) ==
  IF I = {} THEN 0
  ELSE LET i == CHOOSE i \in I : TRUE IN RootTxs[i].value + SumValues(I \ {i})
EdgesBetween(a, b) == {i \in 1..Len(edges) : {edges[i].source, edges[i].target} = {a, b}}
\* A finished build of depth 1 whose lookups all returned the provider's data.
DepthOneAllFound ==
  /\ gpc = "returned"
  /\ depth = 1
  /\ rootFetched
  /\ ~lookupFailed
  /\ Cardinality(Counterparts) <= FanOut
  /\ 1 + Cardinality(Counterparts) <= maxNodes

\* C14: with depth 1, every lookup succeeding and room for the root and its
\* k <= 10 counterparts, the graph is the root, the k counterparts and k
\* edges; the edge to X counts the root's transactions that name X and sums
\* their values.
C14_DepthOneScenario ==
  DepthOneAllFound =>
    /\ NodeAddrs = {rootAddress} \cup Counterparts
    /\ Len(nodes) = 1 + Cardinality(Counterparts)
    /\ Len(edges) = Cardinality(Counterparts)
    /\ \A X \in Counterparts :
         /\ Cardinality(EdgesBetween(rootAddress, X)) = 1
         /\ \A i \in EdgesBetween(rootAddress, X) :
              /\ edges[i].transactions = Cardinality(Naming(X))
              /\ edges[i].totalVolume = SumValues(Naming(X))

\* Such a build for a root with two transactions with one counterpart.
C14_Witness ==
  /\ DepthOneAllFound
  /\ Len(nodes) = 2
  /\ \E X \in Counterparts : Cardinality(Naming(X)) = 2

\* Such a build for a root with two counterparts.
DepthOneTwoCounterparts == DepthOneAllFound /\ Cardinality(Counterparts) = 2

\* C15: with maxNodes = 1 and a successful root lookup the returned graph is
\* the root alone, with no edge.
C15_SingleNodeGraph ==
  (gpc = "returned" /\ maxNodes = 1 /\ rootFetched) =>
    /\ nodes = <<[address |-> rootAddress, level |-> 0]>>
    /\ edges = <<>>

\* Such a build for a root whose provider lists transactions with others.
C15_Witness ==
  /\ gpc = "returned"
  /\ maxNodes = 1
  /\ rootFetched
  /\ depth >= 1
  /\ Counterparts # {}

\* ------------------------------------------------------- C17: no history
\* The provider lists no transaction for the investigated address.
NoHistory == ProviderTxs(ledger, rootAddress, InvestigateTxLimit) = <<>>

\* C17: the result investigateWallet returns for a wallet whose lookup
\* succeeded and for which the provider lists no transaction has
\* behaviorPattern 'No transaction history', volumeAnalysis 'No volume data'
\* and no connected wallet.
C17_ZeroTransactionAnalysis ==
  (entry = "investigate" /\ ipc = "returned" /\ NoHistory) =>
    /\ result.status = "ok"
    /\ result.analysis.behaviorPattern = "No transaction history"
    /\ result.analysis.volumeAnalysis = "No volume data"
    /\ result.connectedWallets = <<>>

\* Such a result after a transaction fetch and a graph build on a ledger that
\* holds transactions of other addresses.
C17_Witness ==
  /\ entry = "investigate"
  /\ ipc = "returned"
  /\ NoHistory
  /\ network = "bitcoin"
  /\ fetchTransactions
  /\ buildGraph
  /\ depth >= 1
  /\ ledger # <<>>
  /\ result.analysis.behaviorPattern = "No transaction history"

\* ------------------------------------------------------ C16: the animation
\* C16: the force step is applied at most 300 times to a graph.
C16_BoundedSimulation == layout.steps <= MaxFrames

\* With an empty node state the loop does stop: 300 frames, no step, no
\* further frame requested.
EmptyGraphLoopStops ==
  /\ layout.mounted
  /\ layout.graphNodes = 0
  /\ layout.frameCount = MaxFrames
  /\ ~layout.scheduled
  /\ layout.steps = 0

\* ------------------------------------------------------------- C18: risk
\* C18: a wallet with the ransomware flag and no score-lowering factor has
\* riskLevel high or critical.
C18_RansomwareIsHighRisk ==
  (risk.classified /\ "ransomware" \in risk.factors
     /\ risk.factors \cap DOMAIN Subtracts = {}) =>
    risk.level \in {"high", "critical"}

\* The wallet the service reports for an address with the ransomware factor
\* carries the ransomware flag.
ServiceFlagsRansomware ==
  (risk.classified /\ "ransomware" \in risk.factors) => ProviderWallet.isRansomware

\* ------------------------------------------------- C19, C20: the search box
ValidHash(query) ==
  \E net \in {"bitcoin", "litecoin", "ethereum", "tron"} : isValidTransactionHash(query, net)

\* C19: in transaction mode every query that is a valid transaction hash for
\* some network leads handleSearch to call getTransactionDetails.
C19_ValidHashIsLookedUp ==
  \A i \in 1..Len(ui.searches) :
    (ui.searches[i].type = "transaction" /\ ValidHash(ui.searches[i].query)) =>
      ui.searches[i].verdict = "details"

\* No search ever reaches the getTransactionDetails call.
TransactionLookupUnreachable ==
  \A i \in 1..Len(ui.searches) : ui.searches[i].verdict # "details"

\* C20: once every submitted search has completed, the displayed investigation
\* result, if any, is a result for the query submitted last.
C20_LatestSearchDisplayed ==
  (ui.searches # <<>> /\ \A i \in 1..Len(ui.searches) : ~ui.searches[i].awaiting) =>
    \/ ui.investigationResult = 0
    \/ ui.searches[ui.investigationResult].query = ui.searches[Len(ui.searches)].query

\* ------------------------------------------- C21: ethereum counterparts
\* The addresses the ledger's transactions with `a` name besides `a`.
LedgerCounterparts(a) ==
  {X \in Addr \ {a} : \E i \in 1..Len(ledger) : InTx(ledger[i], a) /\ InTx(ledger[i], X)}
GraphNodeAddrs(g) == {g.nodes[i].address : i \in 1..Len(g.nodes)}
ConnectedAddrs(r) == {r.connectedWallets[i].address : i \in 1..Len(r.connectedWallets)}
\* investigateWallet returned a result for an ethereum address after a graph
\* build that expands the root.
EthereumInvestigated ==
  /\ entry = "investigate"
  /\ network = "ethereum"
  /\ ipc = "returned"
  /\ iwallet = "wallet"
  /\ buildGraph
  /\ depth >= 1

\* C21: the result of an ethereum investigation with buildGraph names every
\* address the ledger's transactions connect to the investigated address, as a
\* graph node and as a connected wallet.
C21_EthereumCounterparts ==
  EthereumInvestigated =>
    \A X \in LedgerCounterparts(rootAddress) :
      X \in GraphNodeAddrs(result.graph) /\ X \in ConnectedAddrs(result)

\* What the code does instead: the transaction list of an ethereum address is
\* always empty, so the graph has no edge and the result no connected wallet.
EthereumGraphHasNoCounterparts ==
  EthereumInvestigated => (result.graph.edges = <<>> /\ ConnectedAddrs(result) = {})

\* ------------------------------------- C22: a provider for every network
\* C22: a getWalletInfo call that misses the cache asks at least one provider
\* before it returns, whatever the network of the address.
C22_EveryNetworkHasProvider ==
  \A i \in 1..MaxCalls :
    (calls[i].op = "info" /\ calls[i].pc = "done" /\ calls[i].read = "miss") =>
      calls[i].requests >= 1

\* The same for the two networks with a provider branch.
ProviderNetworksAreAsked ==
  \A i \in 1..MaxCalls :
    (calls[i].op = "info" /\ calls[i].pc = "done" /\ calls[i].read = "miss"
       /\ calls[i].net \in {"bitcoin", "ethereum"}) =>
      calls[i].requests >= 1

\* ------------------------------------------ C29: a cache write that fails
\* C29: a getWalletInfo call to which a provider returned a wallet returns that
\* wallet, whether or not the cache write succeeded.
C29_CacheWriteFailureIsHarmless ==
  \A i \in 1..MaxCalls :
    (calls[i].op = "info" /\ calls[i].pc = "done" /\ calls[i].data.kind = "wallet") =>
      calls[i].out = calls[i].data

\* --------------------------------- C23, C28: the lookups of one build
QueueAddrs == {queue[i].address : i \in 1..Len(queue)}
\* The queue after the step is what was left of it, with new entries behind.
KeepsQueue ==
  /\ Len(queue') >= Len(queue) - 1
  /\ SubSeq(queue', 1, Len(queue) - 1) = Tail(queue)

\* C23: in every expansion a counterpart whose lookup returned no wallet is
\* neither added as a node nor enqueued, and the build goes on: the
\* counterparts after it are looked up and added when found, the queue
\* entries that waited are kept, and the loop continues.
C23_FailedCounterpartSkipped ==
  [][gpc = "loop" =>
       \A i \in (Len(lookups) + 1)..Len(lookups') :
         lookups'[i].result = "null" =>
           /\ lookups'[i].address \notin NodeAddrs'
           /\ lookups'[i].address \notin QueueAddrs'
           /\ gpc' = "loop"
           /\ KeepsQueue
           /\ \A j \in (i + 1)..Len(lookups') :
                lookups'[j].result = "wallet" =>
                  /\ lookups'[j].address \in NodeAddrs'
                  /\ lookups'[j].address \in QueueAddrs']_vars

\* A returned graph of a fetched root with two counterparts: the lookup of the
\* first failed, the second was looked up after it and is a node.
C23_Witness ==
  /\ gpc = "returned"
  /\ rootFetched
  /\ Len(lookups) = 3
  /\ lookups[2].result = "null"
  /\ lookups[3].result = "wallet"
  /\ NodeAddrs = {rootAddress, lookups[3].address}
  /\ Len(edges) = 2

\* A lookup that returned no wallet missed the cache and, on a network with a
\* provider branch, asked at least the first provider.
AsksProviders(l) == l.result = "null" /\ Providers("info", network) # <<>>

\* C28: within one build the providers are asked for the wallet of any one
\* address at most once.
C28_OneProviderLookupPerAddress ==
  \A a \in Addr :
    Cardinality({i \in 1..Len(lookups) : lookups[i].address = a /\ AsksProviders(lookups[i])}) <= 1

\* ---------------------------------------- C25: first and last transaction
\* Transactions are numbered chronologically by their hash.
\* C25: on every edge of a returned graph the first-transaction marker is not
\* later than the last-transaction marker.
C25_FirstNotAfterLast ==
  gpc = "returned" => \A i \in 1..Len(edges) : edges[i].firstTx <= edges[i].lastTx

\* What the code records: firstTx is the first transaction of the scan, which
\* is the newest of the list, and lastTx the oldest.
FirstMarkerIsNewest ==
  gpc = "returned" => \A i \in 1..Len(edges) : edges[i].firstTx >= edges[i].lastTx

\* The same markers reach the connected wallets of an investigation.
InteractionMarkersInOrder ==
  (entry = "investigate" /\ ipc = "returned") =>
    \A i \in 1..Len(result.connectedWallets) :
      result.connectedWallets[i].firstInteraction <= result.connectedWallets[i].lastInteraction

\* ------------------------------------------------- C26: connectedWallets
TouchesRoot(e) == e.source = rootAddress \/ e.target = rootAddress
Investigated == entry = "investigate" /\ ipc = "returned" /\ result.status = "ok"

\* C26 as stated: the connected wallets are one record for each edge of the
\* graph that does not touch the investigated address, each with relationship
\* 'both'.
C26_RecordsForOffRootEdges ==
  Investigated =>
    /\ Len(result.connectedWallets) =
         Len(SelectSeq(result.graph.edges, LAMBDA e : ~TouchesRoot(e)))
    /\ \A i \in 1..Len(result.connectedWallets) :
         result.connectedWallets[i].relationship = "both"

\* C26 as amended: the connected wallets are one record for each edge of the
\* graph, in the order of the edges, whether or not the edge touches the
\* investigated address; the record names the edge's source when its target
\* is the investigated address and its target otherwise, carries the edge's
\* transaction count and volume, and has relationship 'both'.
C26_RecordForEveryEdge ==
  Investigated =>
    /\ Len(result.connectedWallets) = Len(result.graph.edges)
    /\ \A i \in 1..Len(result.connectedWallets) :
         LET w == result.connectedWallets[i]
             e == result.graph.edges[i]
         IN /\ w.relationship = "both"
            /\ w.address = IF e.target = rootAddress THEN e.source ELSE e.target
            /\ w.transactionCount = e.transactions
            /\ w.totalVolume = e.totalVolume

\* A result whose graph has an edge from the investigated address and an edge
\* between two other addresses.
C26_Witness ==
  /\ Investigated
  /\ \E i \in 1..Len(result.graph.edges) : result.graph.edges[i].source = rootAddress
  /\ \E i \in 1..Len(result.graph.edges) : ~TouchesRoot(result.graph.edges[i])
  /\ Len(result.connectedWallets) >= 3

\* ------------------------------------------------ C24, C30: the fan-out
\* The addresses a transaction list names besides `address` and the
\* placeholder, each once, in the order of their first appearance: list
\* order, and in a transaction the inputs before the outputs.
RECURSIVE Mentions(_)
Mentions(txs) ==
  IF txs = <<>> THEN <<>> ELSE Head(txs).inputs \o Head(txs).outputs \o Mentions(Tail(txs))
RECURSIVE Dedupe(_)
Dedupe(s) ==
  IF s = <<>> THEN <<>>
  ELSE LET before == Dedupe(SubSeq(s, 1, Len(s) - 1))
           x == s[Len(s)]
       IN IF \E i \in 1..Len(before) : before[i] = x THEN before ELSE Append(before, x)
FirstAppearance(txs, address) ==
  Dedupe(SelectSeq(Mentions(txs), LAMBDA a : a # address /\ a # Unknown))
\* The counterparts an expansion of `address` may process.
FirstTen(address) ==
  FirstN(FirstAppearance(ProviderTxs(ledger, address, GraphTxLimit), address), FanOut)

\* C24: one expansion pushes an edge to each of the first 10 counterparts of
\* the dequeued node in order of first appearance (to none when it got no
\* transaction list), so at most 10 edges, and adds nodes only for
\* counterparts among them, so at most 10 nodes.
C24_FanOutCap ==
  [][gpc = "loop" =>
       LET address == Head(queue).address
           targets == [i \in 1..(Len(edges') - Len(edges)) |-> edges'[Len(edges) + i].target]
           added == {nodes'[i].address : i \in (Len(nodes) + 1)..Len(nodes')}
       IN /\ Len(targets) <= FanOut
          /\ Len(nodes') - Len(nodes) <= FanOut
          /\ targets = <<>> \/ targets = FirstTen(address)
          /\ added \subseteq {targets[i] : i \in 1..Len(targets)}]_vars

\* A returned graph of a root with more than 10 counterparts, the first of
\* which in order of appearance is not the smallest address: 10 edges, and the
\* root with 10 further nodes.
C24_Witness ==
  /\ gpc = "returned"
  /\ rootFetched
  /\ depth = 1
  /\ Len(FirstAppearance(ProviderTxs(ledger, rootAddress, GraphTxLimit), rootAddress)) > FanOut
  /\ FirstTen(rootAddress)[1] = NumFanAddr
  /\ Len(edges) = FanOut
  /\ Len(nodes) = FanOut + 1

\* C30: every returned graph has at most maxNodes + 9 nodes.
C30_NodeOvershoot == gpc = "returned" => Len(nodes) <= maxNodes + (FanOut - 1)

\* A returned graph with exactly maxNodes + 9 nodes: the root and, maxNodes
\* being 2, the 10 counterparts its expansion added.
C30_Witness ==
  /\ gpc = "returned"
  /\ rootFetched
  /\ maxNodes = 2
  /\ Len(nodes) = maxNodes + (FanOut - 1)

\* ---------------------------------------------------- C27: the frequency
\* The average gap between consecutive transactions in time: the gaps of the
\* timestamps in chronological order add up to latest - earliest, over one
\* gap less than there are transactions.
Latest(ts) == CHOOSE t \in {ts[i] : i \in 1..Len(ts)} : \A i \in 1..Len(ts) : ts[i] <= t
Earliest(ts) == CHOOSE t \in {ts[i] : i \in 1..Len(ts)} : \A i \in 1..Len(ts) : ts[i] >= t
NewestFirst(ts) == \A i \in 1..(Len(ts) - 1) : ts[i] >= ts[i + 1]

\* C27: a list of fewer than 2 transactions is 'Insufficient data'; any other
\* list, in whatever order, is classified by its average gap in days: below 1
\* multiple per day, below 7 weekly, below 30 monthly, otherwise infrequent.
C27_FrequencyInAnyOrder ==
  freq.analysed =>
    LET ts == freq.timestamps IN
    freq.frequencyAnalysis =
      IF Len(ts) < 2 THEN "Insufficient data"
      ELSE FrequencyLabel(Latest(ts) - Earliest(ts), Len(ts) - 1)

\* The classification is the claimed one for the lists that are newest first.
FrequencyOfNewestFirstLists ==
  (freq.analysed /\ NewestFirst(freq.timestamps)) => C27_FrequencyInAnyOrder

====
